---- MODULE Spec2Model ----
(***************************************************************************)
(* State-machine model of cw5rcbot (src/bot.py, src/database.py,           *)
(* src/config.py): the per-user rate limiter middleware, the handler of    *)
(* messages forwarded from ChatWarsBot, the menu / language handlers and   *)
(* the access check.                                                       *)
(*                                                                         *)
(* Time is counted in tenths of a second.  Handlers are asyncio            *)
(* coroutines run as tasks on one event loop: the code between two awaits  *)
(* that really suspend (the Telegram API calls message.answer,             *)
(* call.message.edit_text, call.answer) runs without interleaving, so one  *)
(* action of the model is one such segment of a handler; SQLAlchemy calls  *)
(* are synchronous and never suspend.                                      *)
(***************************************************************************)
EXTENDS Integers, Sequences, FiniteSets

VARIABLES
    now,                 \* the wall clock read by datetime.now(...), bot.py 73, 96
    users_last_message,  \* RateLimiterMiddleware.users_last_message, bot.py 69
    users,               \* rows of table "users" (database.py 17-43), in key order
    tasks,               \* handler coroutines suspended at an await
    sessions,            \* sessions made by SessionLocal() and not yet closed
    admitted_at,         \* history: times of the admitted messages, per sender
    registered,          \* history: how often each sender was newly registered
    last                 \* observation: the reply sent by the step just taken

vars == <<now, users_last_message, users, tasks, sessions, admitted_at, registered, last>>

---------------------------------------------------------------------------
(* Bounds of the model *)
MaxSeconds == 1       \* Spec: the clock runs to this many seconds
MaxSecondsSolo == 2   \* SpecSolo
MaxTenths == 22       \* SpecRate: ... and to this many tenths of a second
MaxInFlight == 2      \* handlers suspended at the same time

Ids == {101, 102}
SoloIds == {101}
SecondSteps == {10}
FineSteps == {5, 6}

---------------------------------------------------------------------------
(* Python None and optional values *)
None == <<>>
Some(x) == <<x>>
Val(o) == o[1]

(* config.RATE_LIMIT = 1.0 s; timedelta(seconds=40); in tenths of a second *)
RATE_LIMIT == 10
FRESH_WINDOW == 400

(* timedelta(hours=48), in tenths of a second *)
STALE_AFTER == 1728000

(* Message texts are sequences of tokens; the tokens the code looks for: *)
FLAG == "flag"              \* the Red Castle flag at the start of /hero
HERO == "Attack Force:"
BAG == "Equipment"
NUMBERS == "Additional info"
FILL == "x"

Texts == { <<FLAG, HERO>>, <<BAG, FLAG, HERO>>, <<FLAG, BAG, NUMBERS>>,
          <<NUMBERS>>, <<FLAG>> }

(* message.text of a forwarded message: a text, or None for a forward      *)
(* without text (a photo, a sticker)                                       *)
MessageTexts == {<<>>} \cup {<<text>> : text \in Texts}

Ages == {400, 410}

(* Where the store raises SQLAlchemyError in a handler: nowhere, in the    *)
(* query for the user, in session.commit(), in the query for the           *)
(* translation after the commit                                            *)
Faults == {"none", "lookup", "commit", "translation"}
StoreFaults == Faults \ {"none"}

(* How long after the present moment an access check is made: at once,     *)
(* 47 h, 48 h, 48 h and a tenth of a second, 49 h later                    *)
Laters == {0, 1692000, 1728000, 1728001, 1764000}
Chats == {"private", "group"}
Languages == {"en", "es", "ru"}

(* substring in text / text.startswith(prefix), on token sequences *)
Contains(text, marker) == \E i \in 1..Len(text) : text[i] = marker
StartsWith(text, marker) == Len(text) >= 1 /\ text[1] = marker

(* Replies *)
START_MESSAGE == "START_MESSAGE"
SUCCESS_MESSAGE == "SUCCESS_MESSAGE"
UNAUTHORIZED_MESSAGE == "UNAUTHORIZED_MESSAGE"
LANGUAGE_PROMPT == "LANGUAGE_PROMPT"
TOO_QUICKLY == "You're sending messages too quickly. Please wait a moment."
UNRECOGNIZED == "Unrecognized message format. Please send /hero, /bag, or /numbers."
OPERATION_OK == "Operation completed successfully."
SEND_HERO == "Please send your /hero to access the menu."
PLAYER_MENU == "Player menu:"
NO_ROLE_MENU == "Role-specific menus are not implemented yet."
ERROR_NOTICE == "An error occurred while processing your request."
NoReply == "-"

---------------------------------------------------------------------------
(* database.py: table "users".  A row keeps the columns the handlers read   *)
(* or write; username, first_name, last_name, created_at and               *)
(* timezone_offset are written once at creation and never read.            *)
NewUser(uid) ==
    [ telegram_id         |-> uid,
      language            |-> "en",
      role                |-> "player",
      trust_status        |-> None,
      hero_info           |-> None,
      last_hero_update    |-> None,
      bag                 |-> None,
      last_bag_update     |-> None,
      numbers             |-> None,
      last_numbers_update |-> None ]

Min(S) == CHOOSE x \in S : \A y \in S : x <= y

(* Variant: the query has no filter and returns the first row of the table *)
FindUserAny(tbl, uid) ==
    IF tbl = <<>> THEN 0 ELSE 1

(* session.query(User).filter(User.telegram_id == uid).first(): the index  *)
(* of the row, 0 for None                                                  *)
FindUser(tbl, uid) ==
    LET hits == {i \in 1..Len(tbl) : tbl[i].telegram_id = uid}
    IN  IF hits = {} THEN 0 ELSE Min(hits)

(* telegram_id is UNIQUE: the INSERT of a second row for it fails *)
UniqueViolation(tbl, row) ==
    \E i \in 1..Len(tbl) : tbl[i].telegram_id = row.telegram_id

(* Variant: the new row never reaches the table *)
AddUserLost(tbl, row) == [ok |-> TRUE, tbl |-> tbl]

(* session.add(user); session.commit() *)
AddUser(tbl, row) ==
    IF UniqueViolation(tbl, row)
    THEN [ok |-> FALSE, tbl |-> tbl]
    ELSE [ok |-> TRUE, tbl |-> Append(tbl, row)]

(* Column language has no default: a row made without it holds NULL *)
NoLanguage == "NULL"

(* The user_data handed to database.add_user: the telegram_id, and a        *)
(* language, a role and a trust status or the column's default              *)
UserData(ids) ==
    [ telegram_id  : ids,
      language     : {NoLanguage, "ru"},
      role         : {"player", "mentor"},
      trust_status : {None, Some("trusted")} ]

(* database.add_user: a User of user_data, session.add, session.commit; a  *)
(* SQLAlchemyError (the telegram_id is taken) is rolled back and logged;   *)
(* the session it was handed is closed in every case.  No handler of       *)
(* bot.py calls it.                                                        *)
add_user(tbl, user_data) ==
    AddUser(tbl, [NewUser(user_data.telegram_id) EXCEPT
                     !.language = user_data.language,
                     !.role = user_data.role,
                     !.trust_status = user_data.trust_status]).tbl

(* table "translations" is only read; this deployment has one row *)
Translations == { <<"operation_successful", "ru", "OK_RU">> }

Lookup(key, language) ==
    {tr \in Translations : tr[1] = key /\ tr[2] = language}

(* get_translated_message *)
get_translated_message(key, language) ==
    IF Lookup(key, language) = {} THEN OPERATION_OK
    ELSE (CHOOSE tr \in Lookup(key, language) : TRUE)[3]

---------------------------------------------------------------------------
(* Variants of the rate limiter's test: the interval itself rejected; the  *)
(* comparison turned around                                                *)
TooSoonInclusive(last_time, t) ==
    last_time # None /\ t - Val(last_time) <= RATE_LIMIT

TooSoonReversed(last_time, t) ==
    last_time # None /\ t - Val(last_time) > RATE_LIMIT

(* The rate limiter's test (bot.py line 77) *)
TooSoon(last_time, t) ==
    last_time # None /\ t - Val(last_time) < RATE_LIMIT

(* The assignments of process_hero_message / process_bag_message /         *)
(* process_numbers_message, on the row of the user; before two of them a   *)
(* variant: the flag looked for anywhere in the text; the bag update       *)
(* stamping the hero timestamp too                                         *)
UpdateHeroAnywhere(row, text, t) ==
    [row EXCEPT !.trust_status = Some(IF Contains(text, FLAG)
                                      THEN "trusted" ELSE "untrusted"),
                !.hero_info = Some(text),
                !.last_hero_update = Some(t)]

UpdateHero(row, text, t) ==
    [row EXCEPT !.trust_status = Some(IF StartsWith(text, FLAG)
                                      THEN "trusted" ELSE "untrusted"),
                !.hero_info = Some(text),
                !.last_hero_update = Some(t)]

UpdateBagStamping(row, text, t) ==
    [row EXCEPT !.bag = Some(text), !.last_bag_update = Some(t),
                !.last_hero_update = Some(t)]

UpdateBag(row, text, t) ==
    [row EXCEPT !.bag = Some(text), !.last_bag_update = Some(t)]

UpdateNumbers(row, text, t) ==
    [row EXCEPT !.numbers = Some(text), !.last_numbers_update = Some(t)]

(* What a handler does up to its first await: the table it leaves, the     *)
(* reply it sends, and where it is suspended in that await: "reg_prompt"   *)
(* (bot.py line 118, LANGUAGE_PROMPT still to send), "hero_log" (bot.py    *)
(* line 149 / 151, the log line 152 still to run), "close" / "cb_close"    *)
(* (the finally clause still to run), or "done" when nothing but the       *)
(* return follows the await or the handler returned without a reply.       *)
Result(tbl, reply, pc, outcome) ==
    [tbl |-> tbl, reply |-> reply, pc |-> pc, outcome |-> outcome]

(* except SQLAlchemyError (bot.py lines 135-137): the session's pending     *)
(* changes are dropped with the session, the failure notice is sent         *)
StorageError(tbl) == Result(tbl, ERROR_NOTICE, "close", "storage_error")

(* Variant: a failing commit still leaves the hero text in the row *)
process_hero_message_partial(text, i, t, tbl, fault) ==
    IF fault = "commit"
    THEN StorageError([tbl EXCEPT ![i].hero_info = Some(text)])
    ELSE Result([tbl EXCEPT ![i] = UpdateHero(tbl[i], text, t)],
                IF StartsWith(text, FLAG) THEN SUCCESS_MESSAGE ELSE UNAUTHORIZED_MESSAGE,
                "hero_log", "hero")

process_hero_message(text, i, t, tbl, fault) ==
    IF fault = "commit" THEN StorageError(tbl)
    ELSE Result([tbl EXCEPT ![i] = UpdateHero(tbl[i], text, t)],
                IF StartsWith(text, FLAG) THEN SUCCESS_MESSAGE ELSE UNAUTHORIZED_MESSAGE,
                "hero_log", "hero")

(* Variant: the success text is sent although the commit failed *)
process_bag_message_optimistic(text, i, t, tbl, fault) ==
    IF fault = "commit"
    THEN Result(tbl, get_translated_message("operation_successful", tbl[i].language),
                "close", "bag")
    ELSE IF fault = "translation"
    THEN StorageError([tbl EXCEPT ![i] = UpdateBag(tbl[i], text, t)])
    ELSE Result([tbl EXCEPT ![i] = UpdateBag(tbl[i], text, t)],
                get_translated_message("operation_successful", tbl[i].language),
                "close", "bag")

process_bag_message(text, i, t, tbl, fault) ==
    IF fault = "commit" THEN StorageError(tbl)
    ELSE IF fault = "translation"
    THEN StorageError([tbl EXCEPT ![i] = UpdateBag(tbl[i], text, t)])
    ELSE Result([tbl EXCEPT ![i] = UpdateBag(tbl[i], text, t)],
                get_translated_message("operation_successful", tbl[i].language),
                "close", "bag")

process_numbers_message(text, i, t, tbl, fault) ==
    IF fault = "commit" THEN StorageError(tbl)
    ELSE IF fault = "translation"
    THEN StorageError([tbl EXCEPT ![i] = UpdateNumbers(tbl[i], text, t)])
    ELSE Result([tbl EXCEPT ![i] = UpdateNumbers(tbl[i], text, t)],
                get_translated_message("operation_successful", tbl[i].language),
                "close", "numbers")

(* Variant: a forward exactly FRESH_WINDOW old is expired too *)
ExpiredInclusive(t, forward_date) == t - forward_date >= FRESH_WINDOW

(* The expiry test of bot.py lines 96-97 *)
Expired(t, forward_date) == t - forward_date > FRESH_WINDOW

(* Variant: the equipment marker tested first *)
ClassifyBagFirst(text) ==
    IF Contains(text, BAG) THEN "bag"
    ELSE IF Contains(text, HERO) THEN "hero"
    ELSE IF Contains(text, NUMBERS) THEN "numbers"
    ELSE "unrecognized"

(* The if / elif chain of bot.py lines 123-133 *)
Classify(text) ==
    IF Contains(text, HERO) THEN "hero"
    ELSE IF Contains(text, BAG) THEN "bag"
    ELSE IF Contains(text, NUMBERS) THEN "numbers"
    ELSE "unrecognized"

(* bot.py lines 123-133 for the user in row i; message.text is text, an    *)
(* optional value: the operator "in" on None raises TypeError, which the    *)
(* except clause of line 135 does not catch, so the handler ends in its     *)
(* finally clause without a reply                                           *)
Dispatch(text, i, t, tbl, fault) ==
    IF text = None THEN Result(tbl, NoReply, "done", "type_error")
    ELSE IF Classify(Val(text)) = "hero"
    THEN process_hero_message(Val(text), i, t, tbl, fault)
    ELSE IF Classify(Val(text)) = "bag"
    THEN process_bag_message(Val(text), i, t, tbl, fault)
    ELSE IF Classify(Val(text)) = "numbers"
    THEN process_numbers_message(Val(text), i, t, tbl, fault)
    ELSE Result(tbl, UNRECOGNIZED, "close", "unrecognized")

(* Variant: no return after the registration, the new user's message is    *)
(* classified at once                                                      *)
process_forwarded_message_eager(uid, chat, text, forward_date, t, tbl, fault) ==
    IF chat # "private" THEN Result(tbl, NoReply, "done", "ignored")
    ELSE IF Expired(t, forward_date) THEN Result(tbl, START_MESSAGE, "done", "expired")
    ELSE IF fault = "lookup" THEN StorageError(tbl)
    ELSE LET i == FindUser(tbl, uid) IN
         IF i = 0
         THEN Dispatch(text, Len(tbl) + 1, t, AddUser(tbl, NewUser(uid)).tbl, fault)
         ELSE Dispatch(text, i, t, tbl, fault)

process_forwarded_message(uid, chat, text, forward_date, t, tbl, fault) ==
    IF chat # "private" THEN Result(tbl, NoReply, "done", "ignored")
    ELSE IF Expired(t, forward_date) THEN Result(tbl, START_MESSAGE, "done", "expired")
    ELSE IF fault = "lookup" THEN StorageError(tbl)
    ELSE LET i == FindUser(tbl, uid) IN
         IF i = 0
         THEN LET add == AddUser(tbl, NewUser(uid)) IN
              IF add.ok /\ fault # "commit"
              THEN Result(add.tbl, START_MESSAGE, "reg_prompt", "registered")
              ELSE StorageError(tbl)
         ELSE Dispatch(text, i, t, tbl, fault)

(* start_command *)
start_command(chat, tbl) ==
    IF chat # "private" THEN Result(tbl, NoReply, "done", "ignored")
    ELSE Result(tbl, START_MESSAGE, "done", "start")

(* A SQLAlchemyError in a handler that has try / finally and no except      *)
(* clause: the session is closed, dropping what was not committed, nothing  *)
(* is sent, and the exception leaves the handler (aiogram logs it)          *)
Escaped(tbl) == Result(tbl, NoReply, "done", "escaped")

(* show_menu *)
show_menu(uid, chat, tbl, fault) ==
    IF chat # "private" THEN Result(tbl, NoReply, "done", "ignored")
    ELSE IF fault = "lookup" THEN Escaped(tbl)
    ELSE LET i == FindUser(tbl, uid) IN
         IF i = 0 THEN Result(tbl, SEND_HERO, "close", "no_user")
         ELSE IF tbl[i].role = "player" THEN Result(tbl, PLAYER_MENU, "close", "menu")
         ELSE Result(tbl, NO_ROLE_MENU, "close", "no_role_menu")

(* handle_back_to_menu: the reply is call.message.edit_text(...); with a   *)
(* user the handler goes on to call.answer() after closing the session     *)
handle_back_to_menu(uid, tbl, fault) ==
    IF fault = "lookup" THEN Escaped(tbl)
    ELSE
    LET i == FindUser(tbl, uid) IN
    IF i = 0 THEN Result(tbl, SEND_HERO, "close", "no_user")
    ELSE IF tbl[i].role = "player" THEN Result(tbl, PLAYER_MENU, "cb_close", "menu")
    ELSE Result(tbl, NO_ROLE_MENU, "cb_close", "no_role_menu")

(* Variant: the command registers a sender that has no row *)
set_language_command_creating(uid, chat, language_code, tbl, fault) ==
    IF chat # "private" THEN Result(tbl, NoReply, "done", "ignored")
    ELSE IF fault = "lookup" THEN Escaped(tbl)
    ELSE LET i == FindUser(tbl, uid) IN
         IF i = 0
         THEN Result(Append(tbl, [NewUser(uid) EXCEPT !.language = language_code]),
                     START_MESSAGE, "close", "no_user")
         ELSE IF fault = "commit" THEN Escaped(tbl)
         ELSE IF fault = "translation"
         THEN Escaped([tbl EXCEPT ![i].language = language_code])
         ELSE Result([tbl EXCEPT ![i].language = language_code],
                     IF Lookup("operation_successful", language_code) = {}
                     THEN "Operation completed successfully"
                     ELSE get_translated_message("operation_successful", language_code),
                     "close", "language")

(* set_language_command; its own lookup of the success text *)
set_language_command(uid, chat, language_code, tbl, fault) ==
    IF chat # "private" THEN Result(tbl, NoReply, "done", "ignored")
    ELSE IF fault = "lookup" THEN Escaped(tbl)
    ELSE LET i == FindUser(tbl, uid) IN
         IF i = 0 THEN Result(tbl, START_MESSAGE, "close", "no_user")
         ELSE IF fault = "commit" THEN Escaped(tbl)
         ELSE IF fault = "translation"
         THEN Escaped([tbl EXCEPT ![i].language = language_code])
         ELSE Result([tbl EXCEPT ![i].language = language_code],
                     IF Lookup("operation_successful", language_code) = {}
                     THEN "Operation completed successfully"
                     ELSE get_translated_message("operation_successful", language_code),
                     "close", "language")

(* set_language_prompt *)
set_language_prompt(uid, chat, tbl, fault) ==
    IF chat # "private" THEN Result(tbl, NoReply, "done", "ignored")
    ELSE IF fault = "lookup" THEN Escaped(tbl)
    ELSE LET i == FindUser(tbl, uid) IN
         IF i = 0 THEN Result(tbl, START_MESSAGE, "close", "no_user")
         ELSE Result(tbl, LANGUAGE_PROMPT, "close", "prompt")

(* A DateTime column keeps no time zone: the datetime.now(timezone.utc)    *)
(* a handler stores comes back from the driver as a naive datetime, unless *)
(* the driver restores the zone (aware = TRUE).                            *)
Loaded(stored, aware) ==
    IF stored = None THEN None ELSE Some([t |-> Val(stored), aware |-> aware])

(* check_user_access(user, session) at time t.  Line 183 subtracts         *)
(* user.last_hero_update from an aware datetime before anything else:      *)
(* TypeError for None and for a naive datetime.                            *)
check_user_access(trust_status, last_hero_update, language, t) ==
    IF last_hero_update = None \/ ~Val(last_hero_update).aware
    THEN [error |-> "TypeError", allowed |-> FALSE, reason |-> "-"]
    ELSE IF trust_status # Some("trusted")
    THEN [error |-> "-", allowed |-> FALSE, reason |-> "untrusted"]
    ELSE IF t - Val(last_hero_update).t > STALE_AFTER
    THEN [error |-> "-", allowed |-> FALSE, reason |-> "stale_data"]
    ELSE [error |-> "-", allowed |-> TRUE, reason |-> "-"]

---------------------------------------------------------------------------
(* Observation of a step: whose event ran, how it ended, what was sent *)
Obs(uid, outcome, reply) == [uid |-> uid, outcome |-> outcome, reply |-> reply]

Quiet(what) == Obs(0, what, NoReply)

Suspend(uid, pc) ==
    IF pc = "done" THEN tasks ELSE Append(tasks, [uid |-> uid, pc |-> pc])

(* Every await of a handler that has called SessionLocal() lies in its try  *)
(* block: a handler suspended there holds its session; a handler that       *)
(* returned without an await, or before making a session, holds none        *)
Opened(pc) == IF pc \in {"reg_prompt", "hero_log", "close", "cb_close"} THEN 1 ELSE 0

Init ==
    /\ now = 0
    /\ users_last_message = [u \in Ids |-> None]
    /\ users = <<>>
    /\ tasks = <<>>
    /\ sessions = 0
    /\ admitted_at = [u \in Ids |-> <<>>]
    /\ registered = [u \in Ids |-> 0]
    /\ last = Quiet("init")

(* Variant: the rejected message is answered with the notice and handed    *)
(* to its handler all the same                                             *)
MessageThrottledRuns(uid, res) ==
    /\ IF TooSoon(users_last_message[uid], now)
       THEN /\ users' = res.tbl
            /\ tasks' = Suspend(uid, res.pc)
            /\ sessions' = sessions + Opened(res.pc)
            /\ last' = Obs(uid, "rate_limited", TOO_QUICKLY)
            /\ UNCHANGED <<users_last_message, admitted_at, registered>>
       ELSE /\ users_last_message' = [users_last_message EXCEPT ![uid] = Some(now)]
            /\ admitted_at' = [admitted_at EXCEPT ![uid] = Append(@, now)]
            /\ registered' = [registered EXCEPT ![uid] = IF res.outcome = "registered" THEN @ + 1 ELSE @]
            /\ users' = res.tbl
            /\ tasks' = Suspend(uid, res.pc)
            /\ sessions' = sessions + Opened(res.pc)
            /\ last' = Obs(uid, res.outcome, res.reply)
    /\ UNCHANGED now

(* RateLimiterMiddleware.__call__ around the handler of a message, up to   *)
(* the first await; res is what the handler does on the current table.     *)
Message(uid, res) ==
    /\ IF TooSoon(users_last_message[uid], now)
       THEN /\ tasks' = tasks
            /\ last' = Obs(uid, "rate_limited", TOO_QUICKLY)
            /\ UNCHANGED <<users_last_message, users, sessions, admitted_at, registered>>
       ELSE /\ users_last_message' = [users_last_message EXCEPT ![uid] = Some(now)]
            /\ admitted_at' = [admitted_at EXCEPT ![uid] = Append(@, now)]
            /\ registered' = [registered EXCEPT ![uid] = IF res.outcome = "registered" THEN @ + 1 ELSE @]
            /\ users' = res.tbl
            /\ tasks' = Suspend(uid, res.pc)
            /\ sessions' = sessions + Opened(res.pc)
            /\ last' = Obs(uid, res.outcome, res.reply)
    /\ UNCHANGED now

(* A callback query: router.message.middleware does not see it *)
Callback(uid, res) ==
    /\ users' = res.tbl
    /\ tasks' = Suspend(uid, res.pc)
    /\ sessions' = sessions + Opened(res.pc)
    /\ last' = Obs(uid, res.outcome, res.reply)
    /\ UNCHANGED <<now, users_last_message, admitted_at, registered>>

(* The model starts a handler only while fewer than MaxInFlight are suspended *)
Room == Len(tasks) < MaxInFlight

StartEv(uid, chat) == Message(uid, start_command(chat, users))

ForwardEv(uid, chat, text, age, fault) ==
    Message(uid, process_forwarded_message(uid, chat, text, now - age, now, users, fault))

MenuEv(uid, chat) == Message(uid, show_menu(uid, chat, users, "none"))

SetLangEv(uid, chat, code) ==
    Message(uid, set_language_command(uid, chat, code, users, "none"))

SetLanguagePromptEv(uid, chat) ==
    Message(uid, set_language_prompt(uid, chat, users, "none"))

BackToMenuEv(uid) == Callback(uid, handle_back_to_menu(uid, users, "none"))

(* The same events in a private chat with the store raising SQLAlchemyError *)
MenuFaultEv(uid) == Message(uid, show_menu(uid, "private", users, "lookup"))

SetLangFaultEv(uid, code, fault) ==
    Message(uid, set_language_command(uid, "private", code, users, fault))

SetLanguagePromptFaultEv(uid) ==
    Message(uid, set_language_prompt(uid, "private", users, "lookup"))

BackToMenuFaultEv(uid) == Callback(uid, handle_back_to_menu(uid, users, "lookup"))

StartOn(ids) ==
    /\ Room
    /\ \E uid \in ids, chat \in Chats : StartEv(uid, chat)

ForwardOn(ids) ==
    /\ Room
    /\ \E uid \in ids, chat \in Chats, text \in MessageTexts, age \in Ages :
           ForwardEv(uid, chat, text, age, "none")

(* A forward during whose handling the store raises SQLAlchemyError: the    *)
(* handler reaches the store only in a private chat and with a forward      *)
(* that is not expired (bot.py lines 92-101)                                 *)
ForwardFaultOn(ids) ==
    /\ Room
    /\ \E uid \in ids, text \in MessageTexts, age \in Ages, fault \in StoreFaults :
           /\ ~Expired(now, now - age)
           /\ ForwardEv(uid, "private", text, age, fault)

MenuOn(ids) ==
    /\ Room
    /\ \E uid \in ids, chat \in Chats : MenuEv(uid, chat)

SetLangOn(ids) ==
    /\ Room
    /\ \E uid \in ids, chat \in Chats, code \in Languages : SetLangEv(uid, chat, code)

SetLanguagePromptOn(ids) ==
    /\ Room
    /\ \E uid \in ids, chat \in Chats : SetLanguagePromptEv(uid, chat)

BackToMenuOn(ids) ==
    /\ Room
    /\ \E uid \in ids : BackToMenuEv(uid)

MenuFaultOn(ids) ==
    /\ Room
    /\ \E uid \in ids : MenuFaultEv(uid)

SetLangFaultOn(ids) ==
    /\ Room
    /\ \E uid \in ids, code \in Languages, fault \in StoreFaults :
           SetLangFaultEv(uid, code, fault)

SetLanguagePromptFaultOn(ids) ==
    /\ Room
    /\ \E uid \in ids : SetLanguagePromptFaultEv(uid)

BackToMenuFaultOn(ids) ==
    /\ Room
    /\ \E uid \in ids : BackToMenuFaultEv(uid)

(* A suspended handler runs on to its next await or to its end *)
Remove(seq, i) == SubSeq(seq, 1, i - 1) \o SubSeq(seq, i + 1, Len(seq))

(* Where the store raises SQLAlchemyError in a handler that runs on after   *)
(* an await: nowhere, or in the SELECT that loads the attributes of user    *)
(* again, which session.commit() has expired (expire_on_commit is left at   *)
(* its default in database.py line 13)                                      *)
ResumeFaults == {"none", "refresh"}

(* Variant: the callback handler goes on to call.answer() without its      *)
(* finally clause                                                           *)
ResumeTaskLeaking(i, fault) ==
    /\ fault = "none" \/ tasks[i].pc = "hero_log"
    /\ IF tasks[i].pc = "reg_prompt"
       THEN /\ tasks' = [tasks EXCEPT ![i].pc = "close"]
            /\ sessions' = sessions
            /\ last' = Obs(tasks[i].uid, "resume", LANGUAGE_PROMPT)
       ELSE IF tasks[i].pc = "hero_log" /\ fault = "refresh"
       THEN /\ tasks' = [tasks EXCEPT ![i].pc = "close"]
            /\ sessions' = sessions
            /\ last' = Obs(tasks[i].uid, "resume", ERROR_NOTICE)
       ELSE /\ tasks' = Remove(tasks, i)
            /\ sessions' = IF tasks[i].pc = "cb_close" THEN sessions ELSE sessions - 1
            /\ last' = Obs(tasks[i].uid, "resume", NoReply)
    /\ UNCHANGED <<now, users_last_message, users, admitted_at, registered>>

(* A suspended handler runs on.  After the await of START_MESSAGE it sends  *)
(* LANGUAGE_PROMPT and is suspended once more (bot.py line 119).  After the *)
(* reply to a hero text it reads user.telegram_id for the log line of 152;  *)
(* when that read fails, the except clause of 135-137 sends the failure     *)
(* notice and the handler is suspended once more.  In every other case the  *)
(* finally clause runs session.close() and the handler ends.                *)
ResumeTask(i, fault) ==
    /\ fault = "none" \/ tasks[i].pc = "hero_log"
    /\ IF tasks[i].pc = "reg_prompt"
       THEN /\ tasks' = [tasks EXCEPT ![i].pc = "close"]
            /\ sessions' = sessions
            /\ last' = Obs(tasks[i].uid, "resume", LANGUAGE_PROMPT)
       ELSE IF tasks[i].pc = "hero_log" /\ fault = "refresh"
       THEN /\ tasks' = [tasks EXCEPT ![i].pc = "close"]
            /\ sessions' = sessions
            /\ last' = Obs(tasks[i].uid, "resume", ERROR_NOTICE)
       ELSE /\ tasks' = Remove(tasks, i)
            /\ sessions' = sessions - 1
            /\ last' = Obs(tasks[i].uid, "resume", NoReply)
    /\ UNCHANGED <<now, users_last_message, users, admitted_at, registered>>

Resume == \E i \in 1..Len(tasks), fault \in ResumeFaults : ResumeTask(i, fault)

TickBy(steps, max) ==
    \E d \in steps :
        /\ now + d <= max
        /\ now' = now + d
        /\ last' = Quiet("tick")
        /\ UNCHANGED <<users_last_message, users, tasks, sessions, admitted_at, registered>>

(* check_user_access applied to stored user i, as the driver loads it, at   *)
(* the present moment or so much later with nothing stored in between      *)
CheckAccessOf(i, aware, later) ==
    /\ last' = Obs(users[i].telegram_id,
                   LET r == check_user_access(users[i].trust_status,
                                Loaded(users[i].last_hero_update, aware),
                                users[i].language, now + later)
                   IN  IF r.error # "-" THEN r.error
                       ELSE IF r.allowed THEN "allow" ELSE r.reason,
                   NoReply)
    /\ UNCHANGED <<now, users_last_message, users, tasks, sessions, admitted_at, registered>>

CheckAccess ==
    \E i \in 1..Len(users), aware \in BOOLEAN, later \in Laters :
        CheckAccessOf(i, aware, later)

(* Spec: two senders, events a whole second apart or at the same instant *)
Next ==
    \/ StartOn(Ids)
    \/ ForwardOn(Ids)
    \/ ForwardFaultOn(Ids)
    \/ MenuOn(Ids)
    \/ SetLangOn(Ids)
    \/ SetLanguagePromptOn(Ids)
    \/ BackToMenuOn(Ids)
    \/ MenuFaultOn(Ids)
    \/ SetLangFaultOn(Ids)
    \/ SetLanguagePromptFaultOn(Ids)
    \/ BackToMenuFaultOn(Ids)
    \/ Resume
    \/ TickBy(SecondSteps, MaxSeconds * 10)

Spec == Init /\ [][Next]_vars

(* SpecSolo: one sender, over a longer time *)
NextSolo ==
    \/ StartOn(SoloIds)
    \/ ForwardOn(SoloIds)
    \/ ForwardFaultOn(SoloIds)
    \/ MenuOn(SoloIds)
    \/ SetLangOn(SoloIds)
    \/ SetLanguagePromptOn(SoloIds)
    \/ BackToMenuOn(SoloIds)
    \/ MenuFaultOn(SoloIds)
    \/ SetLangFaultOn(SoloIds)
    \/ SetLanguagePromptFaultOn(SoloIds)
    \/ BackToMenuFaultOn(SoloIds)
    \/ Resume
    \/ TickBy(SecondSteps, MaxSecondsSolo * 10)

SpecSolo == Init /\ [][NextSolo]_vars

(* A call of database.add_user from outside the handlers, with a session   *)
(* of its own that add_user closes before it returns                       *)
AddUserOn(ids) ==
    \E user_data \in UserData(ids) :
        /\ users' = add_user(users, user_data)
        /\ last' = Obs(user_data.telegram_id, "add_user", NoReply)
        /\ UNCHANGED <<now, users_last_message, tasks, sessions, admitted_at, registered>>

(* SpecStore: one sender and all handlers as in SpecSolo, over a table that *)
(* database.add_user writes as well                                         *)
NextStore ==
    \/ NextSolo
    \/ AddUserOn(SoloIds)

SpecStore == Init /\ [][NextStore]_vars

(* SpecRate: commands only, arriving fractions of a second apart *)
NextRate ==
    \/ StartOn(Ids)
    \/ MenuOn(Ids)
    \/ SetLanguagePromptOn(Ids)
    \/ Resume
    \/ TickBy(FineSteps, MaxTenths)

SpecRate == Init /\ [][NextRate]_vars

(* SpecForward: two senders, forwarded messages only *)
NextForward ==
    \/ ForwardOn(Ids)
    \/ ForwardFaultOn(Ids)
    \/ Resume
    \/ TickBy(SecondSteps, MaxSeconds * 10)

SpecForward == Init /\ [][NextForward]_vars

(* SpecPair: two senders who forward fresh hero and equipment texts in a    *)
(* private chat and choose languages, their handlers interleaved           *)
PairTexts == { <<FLAG, HERO>>, <<BAG, FLAG, HERO>>, <<FLAG, BAG, NUMBERS>> }

ForwardPairOn(ids) ==
    /\ Room
    /\ \E uid \in ids, text \in PairTexts :
           ForwardEv(uid, "private", Some(text), FRESH_WINDOW, "none")

NextPair ==
    \/ ForwardPairOn(Ids)
    \/ SetLangOn(Ids)
    \/ Resume
    \/ TickBy(SecondSteps, MaxSeconds * 10)

SpecPair == Init /\ [][NextPair]_vars

(* SpecAccess: one sender's forwards, and the access check applied to the   *)
(* stored rows (no handler calls check_user_access)                         *)
NextAccess ==
    \/ ForwardOn(SoloIds)
    \/ Resume
    \/ TickBy(SecondSteps, MaxSecondsSolo * 10)
    \/ CheckAccess

SpecAccess == Init /\ [][NextAccess]_vars

---------------------------------------------------------------------------
(* Steps, named by the event that takes them *)
MessageStep(uid) ==
    \E chat \in Chats :
        \/ StartEv(uid, chat)
        \/ MenuEv(uid, chat)
        \/ SetLanguagePromptEv(uid, chat)
        \/ \E code \in Languages : SetLangEv(uid, chat, code)
        \/ \E text \in MessageTexts, age \in Ages, fault \in Faults :
               ForwardEv(uid, chat, text, age, fault)
        \/ MenuFaultEv(uid)
        \/ SetLanguagePromptFaultEv(uid)
        \/ \E code \in Languages, fault \in StoreFaults :
               SetLangFaultEv(uid, code, fault)

(* C1: a message at time now is admitted if and only if no timestamp is    *)
(* stored for its sender or now - lastTimestamp >= RATE_LIMIT; an admitted  *)
(* message overwrites the stored timestamp with now, a rejected one leaves  *)
(* it as it was.                                                            *)
C1_AdmissionRule ==
    [][\A uid \in Ids :
         MessageStep(uid) =>
           LET stored == users_last_message[uid]
               admit == stored = None \/ now - Val(stored) >= RATE_LIMIT
           IN  /\ admit <=> last'.outcome # "rate_limited"
               /\ admit => users_last_message'[uid] = Some(now)
               /\ ~admit => /\ users_last_message'[uid] = stored
                            /\ last'.reply = TOO_QUICKLY]_vars

(* Messages of one sender at 0 s, 0.5 s and 1.1 s: the third is admitted    *)
(* (the second was not: only 0 and 1.1 s are recorded)                      *)
C1_Witness ==
    /\ now = 11
    /\ admitted_at[101] = <<0, 11>>
    /\ users_last_message[101] = Some(11)
    /\ last.uid = 101 /\ last.outcome # "rate_limited"

(* C2: no two admitted messages of one sender arrived less than RATE_LIMIT  *)
(* apart, however the handlers of earlier messages are suspended and        *)
(* resumed in between.                                                      *)
C2_NoDoubleAdmission ==
    \A uid \in Ids :
        \A i, j \in 1..Len(admitted_at[uid]) :
            i < j => admitted_at[uid][j] - admitted_at[uid][i] >= RATE_LIMIT

(* A message is turned away half a second after an admitted message of the  *)
(* same sender whose handler is still suspended                             *)
C2_Witness ==
    /\ \E i \in 1..Len(tasks) : tasks[i].uid = 101
    /\ last = Obs(101, "rate_limited", TOO_QUICKLY)
    /\ users_last_message[101] = Some(now - 5)

(* C3: every event that a handler processes has passed the rate limiter:    *)
(* the limiter holds the event's arrival time as the sender's last admitted *)
(* time.                                                                    *)
C3_SingleAdmissionPoint ==
    [][\A uid \in Ids :
         (MessageStep(uid) \/ BackToMenuEv(uid)) /\ last'.outcome # "rate_limited"
            => users_last_message'[uid] = Some(now)]_vars

---------------------------------------------------------------------------
(* Vocabulary of the statements below *)
RowsOf(tbl, uid) == {i \in 1..Len(tbl) : tbl[i].telegram_id = uid}
Mentions(text, marker) == \E k \in 1..Len(text) : text[k] = marker
TrustedHero == <<FLAG, HERO>>
Unset(row) ==
    /\ row.trust_status = None
    /\ row.hero_info = None /\ row.last_hero_update = None
    /\ row.bag = None /\ row.last_bag_update = None
    /\ row.numbers = None /\ row.last_numbers_update = None
Changed(i) == {f \in DOMAIN users[i] : users'[i][f] # users[i][f]}

(* C4: the table holds at most one row per identity and the newly-created   *)
(* branch was taken exactly once for each identity that has a row, never    *)
(* for one that has none, whatever handlers are suspended meanwhile.        *)
C4_OneRecordPerIdentity ==
    \A uid \in Ids :
        /\ Cardinality(RowsOf(users, uid)) <= 1
        /\ registered[uid] = Cardinality(RowsOf(users, uid))

(* The handler that registered a sender is still suspended before          *)
(* LANGUAGE_PROMPT when the sender's next forward is processed             *)
C4_Witness ==
    /\ \E i \in 1..Len(tasks) : tasks[i] = [uid |-> 101, pc |-> "reg_prompt"]
    /\ last.uid = 101 /\ last.outcome \in {"hero", "bag", "numbers", "unrecognized"}
    /\ registered[101] = 1 /\ Cardinality(RowsOf(users, 101)) = 1

(* C5: an admitted, fresh forward of a hero text with the trust marker from *)
(* a sender without a row appends a row with trust status and snapshots     *)
(* unset, answers START_MESSAGE and then LANGUAGE_PROMPT; from a sender     *)
(* with a row it stores the text as hero snapshot, sets trust status to     *)
(* trusted and answers SUCCESS_MESSAGE.                                     *)
C5_FirstContact ==
    [][\A uid \in Ids :
         /\ \A age \in Ages :
              ( /\ ForwardEv(uid, "private", Some(TrustedHero), age, "none")
                /\ age <= FRESH_WINDOW
                /\ last'.outcome # "rate_limited" )
              => IF RowsOf(users, uid) = {}
                 THEN /\ Len(users') = Len(users) + 1
                      /\ SubSeq(users', 1, Len(users)) = users
                      /\ users'[Len(users')].telegram_id = uid
                      /\ Unset(users'[Len(users')])
                      /\ last'.reply = START_MESSAGE
                      /\ tasks' = Append(tasks, [uid |-> uid, pc |-> "reg_prompt"])
                 ELSE /\ \A i \in RowsOf(users, uid) :
                            /\ users'[i].hero_info = Some(TrustedHero)
                            /\ users'[i].trust_status = Some("trusted")
                      /\ last'.reply = SUCCESS_MESSAGE
         /\ \A i \in 1..Len(tasks) :
              ( /\ tasks[i] = [uid |-> uid, pc |-> "reg_prompt"]
                /\ ResumeTask(i, "none") )
              => /\ last' = Obs(uid, "resume", LANGUAGE_PROMPT)
                 /\ \A j \in RowsOf(users, uid) : Unset(users'[j]) <=> Unset(users[j])]_vars

(* The second forward of the same text has just been processed *)
C5_Witness ==
    /\ last = Obs(101, "hero", SUCCESS_MESSAGE)
    /\ \E i \in RowsOf(users, 101) :
          /\ users[i].hero_info = Some(TrustedHero)
          /\ users[i].trust_status = Some("trusted")
    /\ admitted_at[101] = <<0, 10>>

(* C6: an admitted hero message forwarded more than 40 s before it is       *)
(* processed changes no row and, in a private chat, is answered with        *)
(* START_MESSAGE and nothing more; one forwarded exactly 40 s before is not *)
(* expired: it registers the sender or updates the hero snapshot.           *)
C6_ExpiredPath ==
    [][\A uid \in Ids, chat \in Chats, text \in Texts, age \in Ages :
         ( /\ Mentions(text, HERO)
           /\ last'.outcome # "rate_limited"
           /\ ForwardEv(uid, chat, Some(text), age, "none") )
         => IF age > FRESH_WINDOW
            THEN /\ users' = users
                 /\ tasks' = tasks
                 /\ chat = "private" => last'.reply = START_MESSAGE
            ELSE chat = "private" =>
                   /\ last'.outcome \in {"registered", "hero"}
                   /\ users' # users]_vars

(* A registered sender's forward has just been turned away as expired *)
C6_Witness ==
    /\ last = Obs(101, "expired", START_MESSAGE)
    /\ RowsOf(users, 101) # {}

(* C7: processing a hero message changes only hero_info, last_hero_update   *)
(* and trust_status of the sender's row; an equipment message only bag and  *)
(* last_bag_update; a numbers message only numbers and                      *)
(* last_numbers_update; no row is removed; also while the handler of        *)
(* another snapshot kind of the same sender is suspended.                   *)
C7_IndependentSnapshots ==
    [][/\ Len(users') >= Len(users)
       /\ \A i \in 1..Len(users) :
            /\ last'.outcome = "hero" =>
                 Changed(i) \subseteq {"hero_info", "last_hero_update", "trust_status"}
            /\ last'.outcome = "bag" =>
                 Changed(i) \subseteq {"bag", "last_bag_update"}
            /\ last'.outcome = "numbers" =>
                 Changed(i) \subseteq {"numbers", "last_numbers_update"}
            /\ last'.outcome \in {"hero", "bag", "numbers"}
                 /\ users[i].telegram_id # last'.uid => Changed(i) = {}]_vars

(* The equipment message is processed while the handler of the sender's     *)
(* hero message is still suspended; both snapshots are there                *)
C7_Witness ==
    /\ tasks = << [uid |-> 101, pc |-> "hero_log"], [uid |-> 101, pc |-> "close"] >>
    /\ last.uid = 101 /\ last.outcome = "bag"
    /\ \E i \in RowsOf(users, 101) :
          /\ users[i].last_hero_update = Some(10)
          /\ users[i].last_bag_update = Some(20)

(* C8: a row's trust status is unset while it has no hero snapshot, and     *)
(* otherwise trusted exactly when the stored hero text starts with the      *)
(* flag, untrusted when it does not; only the processing of a hero message  *)
(* of the row's owner changes it, and a hero message without the flag at    *)
(* its start makes a trusted row untrusted.                                 *)
C8_TrustInvariant ==
    /\ [](\A i \in 1..Len(users) :
            users[i].trust_status =
               IF users[i].hero_info = None THEN None
               ELSE IF Val(users[i].hero_info)[1] = FLAG THEN Some("trusted")
               ELSE Some("untrusted"))
    /\ [][\A i \in 1..Len(users) :
            /\ users'[i].trust_status # users[i].trust_status
                 => last'.outcome = "hero" /\ last'.uid = users[i].telegram_id
            /\ \A text \in Texts, age \in Ages :
                 ( /\ ForwardEv(users[i].telegram_id, "private", Some(text), age, "none")
                   /\ last'.outcome = "hero"
                   /\ text[1] # FLAG )
                 => users'[i].trust_status = Some("untrusted")]_vars

(* A hero text that holds the flag, but not at its start, is stored *)
C8_Witness ==
    \E i \in RowsOf(users, 101) :
        /\ users[i].hero_info = Some(<<BAG, FLAG, HERO>>)
        /\ users[i].trust_status = Some("untrusted")
        /\ users[i].last_hero_update = Some(20)

(* C9: an admitted, fresh forward from a sender with a row is processed as  *)
(* Hero if the hero marker is in the text, else as Equipment if the         *)
(* equipment marker is, else as Numbers if the numbers marker is, else it   *)
(* is unrecognized: only the snapshot of that kind takes the text, and an   *)
(* unrecognized text is answered with the format guidance and changes       *)
(* nothing.                                                                 *)
C9_ClassificationPriority ==
    [][\A uid \in Ids, text \in Texts, age \in Ages :
         ( /\ ForwardEv(uid, "private", Some(text), age, "none")
           /\ age <= FRESH_WINDOW
           /\ last'.outcome # "rate_limited" )
         => \A i \in RowsOf(users, uid) :
              LET kind == IF Mentions(text, HERO) THEN "hero"
                          ELSE IF Mentions(text, BAG) THEN "bag"
                          ELSE IF Mentions(text, NUMBERS) THEN "numbers"
                          ELSE "unrecognized"
              IN  /\ last'.outcome = kind
                  /\ users'[i].hero_info =
                        IF kind = "hero" THEN Some(text) ELSE users[i].hero_info
                  /\ users'[i].bag =
                        IF kind = "bag" THEN Some(text) ELSE users[i].bag
                  /\ users'[i].numbers =
                        IF kind = "numbers" THEN Some(text) ELSE users[i].numbers
                  /\ kind = "unrecognized" =>
                        users' = users /\ last'.reply = UNRECOGNIZED]_vars

(* A text with the equipment and the hero marker was processed as Hero only *)
C9_Witness ==
    /\ last.uid = 101 /\ last.outcome = "hero"
    /\ \E i \in RowsOf(users, 101) :
          /\ users[i].hero_info = Some(<<BAG, FLAG, HERO>>)
          /\ users[i].bag = None

(* C10: for every stored user whose trust status is not trusted, the access *)
(* check returns deny with the untrusted reason, and raises no error.       *)
C10_UntrustedDenied ==
    [][\A i \in 1..Len(users), aware \in BOOLEAN, later \in Laters :
         CheckAccessOf(i, aware, later) /\ users[i].trust_status # Some("trusted")
            => last'.outcome = "untrusted"]_vars

(* C11: for every stored user whose trust status is trusted, the access     *)
(* check made at time t denies with the stale-data reason if t minus the    *)
(* stored last_hero_update is more than 48 hours and allows otherwise       *)
(* (49 h denies; 47 h and exactly 48 h allow); it raises no error.          *)
C11_StaleThreshold ==
    [][\A i \in 1..Len(users), aware \in BOOLEAN, later \in Laters :
         CheckAccessOf(i, aware, later) /\ users[i].trust_status = Some("trusted")
            => last'.outcome =
                  IF now + later - Val(users[i].last_hero_update) > STALE_AFTER
                  THEN "stale_data" ELSE "allow"]_vars

(* C12: the /menu command and the Back to Menu callback present the player  *)
(* menu to a sender only if the sender's row has trust status trusted and   *)
(* a hero snapshot not older than 48 hours.                                 *)
C12_MenuGatedByTrust ==
    [][\A uid \in Ids :
         ( /\ (\E chat \in Chats : MenuEv(uid, chat)) \/ BackToMenuEv(uid)
           /\ last'.reply = PLAYER_MENU )
         => \E i \in RowsOf(users, uid) :
               /\ users[i].trust_status = Some("trusted")
               /\ users[i].last_hero_update # None
               /\ now - Val(users[i].last_hero_update) <= STALE_AFTER]_vars

(* A text that holds one of the three markers *)
SnapshotText(text) ==
    Mentions(text, HERO) \/ Mentions(text, BAG) \/ Mentions(text, NUMBERS)

(* C13: when the store fails in an admitted, fresh forward in a private     *)
(* chat - in the query for the user, in the commit of the new row, or in    *)
(* the commit of a snapshot update - the event is answered with the         *)
(* generic failure notice, no row is added and no field of any row          *)
(* changes, and what is left of the handler (closing the session) writes    *)
(* nothing: the update is not tried again.                                  *)
C13_StorageFailure ==
    [][/\ \A uid \in Ids, text \in MessageTexts, age \in Ages, fault \in Faults :
            ( /\ age <= FRESH_WINDOW
              /\ \/ fault = "lookup"
                 \/ /\ fault = "commit"
                    /\ \/ RowsOf(users, uid) = {}
                       \/ text # None /\ SnapshotText(Val(text))
              /\ last'.outcome # "rate_limited"
              /\ ForwardEv(uid, "private", text, age, fault) )
            => /\ last' = Obs(uid, "storage_error", ERROR_NOTICE)
               /\ users' = users
               /\ tasks' = Append(tasks, [uid |-> uid, pc |-> "close"])
       /\ \A i \in 1..Len(tasks) :
            tasks[i].pc = "close" /\ ResumeTask(i, "none")
            => /\ users' = users
               /\ last'.reply = NoReply
               /\ Len(tasks') = Len(tasks) - 1]_vars

(* A forward of a registered sender that has a hero snapshot has just       *)
(* ended in the failure notice, its handler not yet through its finally     *)
(* clause                                                                   *)
C13_Witness ==
    /\ last = Obs(101, "storage_error", ERROR_NOTICE)
    /\ \E i \in RowsOf(users, 101) : users[i].hero_info = Some(TrustedHero)
    /\ \E i \in 1..Len(tasks) : tasks[i] = [uid |-> 101, pc |-> "close"]

(* C14: a row exists for a sender only if a hero, equipment or numbers     *)
(* message forwarded by that sender has been accepted and processed: every  *)
(* row holds at least one stored snapshot.                                  *)
C14_RecordExistence ==
    \A i \in 1..Len(users) :
        users[i].hero_info # None \/ users[i].bag # None \/ users[i].numbers # None

(* C15: every admitted forward in a private chat from a sender without a    *)
(* row, whatever its text and however long ago it was forwarded, leaves a   *)
(* row of that sender and is answered START_MESSAGE, with LANGUAGE_PROMPT   *)
(* still to follow.                                                         *)
C15_CreateBeforeGates ==
    [][\A uid \in Ids, text \in MessageTexts, age \in Ages :
         ( /\ ForwardEv(uid, "private", text, age, "none")
           /\ RowsOf(users, uid) = {}
           /\ last'.outcome # "rate_limited" )
         => /\ RowsOf(users', uid) # {}
            /\ last'.reply = START_MESSAGE
            /\ tasks' = Append(tasks, [uid |-> uid, pc |-> "reg_prompt"])]_vars

(* C16: an admitted forward in a private chat of an equipment or numbers    *)
(* text (no hero marker) from a sender with a row stores the text and the   *)
(* time in the snapshot of its kind and is answered with the success        *)
(* message, whatever the age of the forward.                                *)
C16_FreshnessOnlyForHero ==
    [][\A uid \in Ids, text \in Texts, age \in Ages :
         ( /\ ForwardEv(uid, "private", Some(text), age, "none")
           /\ ~Mentions(text, HERO)
           /\ Mentions(text, BAG) \/ Mentions(text, NUMBERS)
           /\ last'.outcome # "rate_limited" )
         => \A i \in RowsOf(users, uid) :
              /\ IF Mentions(text, BAG)
                 THEN /\ users'[i].bag = Some(text)
                      /\ users'[i].last_bag_update = Some(now)
                 ELSE /\ users'[i].numbers = Some(text)
                      /\ users'[i].last_numbers_update = Some(now)
              /\ last'.reply = get_translated_message("operation_successful",
                                                      users[i].language)]_vars

(* C17: a message that arrives less than RATE_LIMIT after the sender's      *)
(* last admitted message is answered with the throttling notice and         *)
(* nothing else: no handler is started or left suspended by it, and the     *)
(* table of users and every stored timestamp of the limiter stay as they    *)
(* were.                                                                    *)
C17_ThrottledNoEffect ==
    [][\A uid \in Ids :
         ( /\ users_last_message[uid] # None
           /\ now - Val(users_last_message[uid]) < RATE_LIMIT
           /\ MessageStep(uid) )
         => /\ last' = Obs(uid, "rate_limited", TOO_QUICKLY)
            /\ users' = users
            /\ users_last_message' = users_last_message
            /\ tasks' = tasks
            /\ admitted_at' = admitted_at]_vars

(* A registered sender with a hero snapshot and no equipment snapshot has  *)
(* just been throttled                                                      *)
C17_Witness ==
    /\ last = Obs(101, "rate_limited", TOO_QUICKLY)
    /\ users_last_message[101] = Some(now)
    /\ \E i \in RowsOf(users, 101) :
          /\ users[i].hero_info # None
          /\ users[i].bag = None

(* C18: every forward in a private chat ends in exactly one of the          *)
(* outcomes processed (the sender registered or a snapshot stored),         *)
(* rejected by the rate limit, rejected as expired, rejected as             *)
(* unrecognized, rejected by a storage error.                               *)
C18_TerminalOutcomes ==
    [][\A uid \in Ids, text \in MessageTexts, age \in Ages, fault \in Faults :
         ForwardEv(uid, "private", text, age, fault)
         => last'.outcome \in {"registered", "hero", "bag", "numbers",
                               "rate_limited", "expired", "unrecognized",
                               "storage_error"}]_vars

(* C19: an admitted /set_en, /set_es or /set_ru in a private chat from a    *)
(* sender with a row writes the chosen code to the language of that row     *)
(* and changes no other field and no other row; from a sender without a     *)
(* row it adds no row and is answered START_MESSAGE; the language of an     *)
(* existing row changes in no other step, so in no forward; a new row       *)
(* starts with language 'en'; and when the store fails during the command   *)
(* every row is left as it was or differs in the chosen language alone.     *)
C19_LanguageFrame ==
    [][/\ \A uid \in Ids, code \in Languages :
            ( /\ SetLangEv(uid, "private", code)
              /\ last'.outcome # "rate_limited" )
            => IF RowsOf(users, uid) = {}
               THEN /\ users' = users
                    /\ last' = Obs(uid, "no_user", START_MESSAGE)
               ELSE /\ Len(users') = Len(users)
                    /\ \A i \in 1..Len(users) :
                         users'[i] = IF users[i].telegram_id = uid
                                     THEN [users[i] EXCEPT !.language = code]
                                     ELSE users[i]
       /\ \A uid \in Ids, code \in Languages, fault \in StoreFaults :
            SetLangFaultEv(uid, code, fault)
            => /\ Len(users') = Len(users)
               /\ \A i \in 1..Len(users) :
                    users'[i] \in {users[i], [users[i] EXCEPT !.language = code]}
       /\ \A i \in 1..Len(users) :
            users'[i].language # users[i].language
            => /\ last'.uid = users[i].telegram_id
               /\ \E code \in Languages :
                     \/ SetLangEv(last'.uid, "private", code)
                     \/ SetLangFaultEv(last'.uid, code, "translation")
       /\ \A i \in (Len(users) + 1)..Len(users') : users'[i].language = "en"]_vars

(* The language of a row with a hero snapshot and trust status has just     *)
(* been set to 'es'                                                         *)
C19_Witness ==
    /\ last.uid = 101 /\ last.outcome = "language"
    /\ \E i \in RowsOf(users, 101) :
          /\ users[i].language = "es"
          /\ users[i].hero_info = Some(TrustedHero)
          /\ users[i].trust_status = Some("trusted")

(* C20: a command or a forward that arrives in a chat that is not private   *)
(* is answered with nothing and changes neither the table of users nor      *)
(* the limiter's stored timestamp of its sender.                            *)
C20_NonPrivateIgnored ==
    [][\A uid \in Ids :
         ( \/ StartEv(uid, "group")
           \/ MenuEv(uid, "group")
           \/ SetLanguagePromptEv(uid, "group")
           \/ \E code \in Languages : SetLangEv(uid, "group", code)
           \/ \E text \in MessageTexts, age \in Ages, fault \in Faults :
                 ForwardEv(uid, "group", text, age, fault) )
         => /\ last'.reply = NoReply
            /\ users' = users
            /\ users_last_message' = users_last_message]_vars

(* The texts that tell the sender of a snapshot that it was taken *)
SnapshotReplies ==
    {SUCCESS_MESSAGE, UNAUTHORIZED_MESSAGE}
       \cup {get_translated_message("operation_successful", l) : l \in Languages}

(* C21: when a forward is answered with the success or the unauthorized     *)
(* message, the sender has a row and the step has stored the text and the   *)
(* time in the snapshot of the text's kind, whatever fault the store shows  *)
(* during the event; for a hero text the answer is SUCCESS_MESSAGE exactly  *)
(* when the stored trust status is trusted and UNAUTHORIZED_MESSAGE         *)
(* exactly when it is untrusted.                                            *)
C21_ReplyAfterCommit ==
    [][\A uid \in Ids, text \in Texts, age \in Ages, fault \in Faults :
         ( /\ last'.reply \in SnapshotReplies
           /\ last'.outcome # "rate_limited"
           /\ ForwardEv(uid, "private", Some(text), age, fault) )
         => /\ RowsOf(users, uid) # {}
            /\ \A i \in RowsOf(users, uid) :
                 IF Mentions(text, HERO)
                 THEN /\ users'[i].hero_info = Some(text)
                      /\ users'[i].last_hero_update = Some(now)
                      /\ last'.reply = SUCCESS_MESSAGE
                            <=> users'[i].trust_status = Some("trusted")
                      /\ last'.reply = UNAUTHORIZED_MESSAGE
                            <=> users'[i].trust_status = Some("untrusted")
                 ELSE IF Mentions(text, BAG)
                 THEN /\ users'[i].bag = Some(text)
                      /\ users'[i].last_bag_update = Some(now)
                      /\ last'.reply \notin {SUCCESS_MESSAGE, UNAUTHORIZED_MESSAGE}
                 ELSE /\ users'[i].numbers = Some(text)
                      /\ users'[i].last_numbers_update = Some(now)
                      /\ last'.reply \notin {SUCCESS_MESSAGE, UNAUTHORIZED_MESSAGE}]_vars

(* A hero text without the flag at its start, from a sender that has an    *)
(* equipment snapshot, has just been stored and answered with the           *)
(* unauthorized message                                                     *)
C21_Witness ==
    /\ last = Obs(101, "hero", UNAUTHORIZED_MESSAGE)
    /\ \E i \in RowsOf(users, 101) :
          /\ users[i].hero_info = Some(<<BAG, FLAG, HERO>>)
          /\ users[i].trust_status = Some("untrusted")
          /\ users[i].last_hero_update = Some(now)
          /\ users[i].bag # None

(* Handlers in flight that are suspended inside the try block of a handler  *)
(* that made a session                                                      *)
HoldingSession == {i \in 1..Len(tasks) : Opened(tasks[i].pc) = 1}

(* C22: the sessions that are open are exactly those of the handlers still  *)
(* suspended before their finally clause, one each: a handler that has      *)
(* ended (after its reply, after an early return for a missing user, after  *)
(* a registration, after a storage error) has closed its session, and with  *)
(* no handler in flight no session is open.                                 *)
C22_SessionsReleased ==
    /\ sessions = Cardinality(HoldingSession)
    /\ tasks = <<>> => sessions = 0

(* The last handler in flight has just ended behind a registration and a    *)
(* forward of sender 101, and nothing is left open                          *)
C22_Witness ==
    /\ last = Obs(101, "resume", NoReply)
    /\ tasks = <<>>
    /\ sessions = 0
    /\ registered[101] = 1
    /\ \E i \in RowsOf(users, 101) : users[i].bag # None

(* What the store holds for one identity, and that identity's handlers in   *)
(* flight                                                                   *)
Own(tbl, uid) == SelectSeq(tbl, LAMBDA row : row.telegram_id = uid)
InFlightOf(uid) == SelectSeq(tasks, LAMBDA task : task.uid = uid)

(* The handler's result on the whole table, seen by uid, is its result on   *)
(* the rows of uid alone: the same reply, outcome and point of suspension,  *)
(* and the same rows for uid                                                *)
SameFor(uid, whole, alone) ==
    [whole EXCEPT !.tbl = Own(@, uid)] = alone

(* Every handler, run for uid in a private chat in the present state,       *)
(* answers and stores for uid what it would with the rows of all other      *)
(* identities absent                                                        *)
OwnRowsDecide ==
    \A uid \in Ids :
       \A own \in {Own(users, uid)} :
       /\ \A text \in MessageTexts, age \in Ages, fault \in Faults :
             SameFor(uid,
                     process_forwarded_message(uid, "private", text, now - age, now, users, fault),
                     process_forwarded_message(uid, "private", text, now - age, now, own, fault))
       /\ \A code \in Languages, fault \in Faults :
             SameFor(uid, set_language_command(uid, "private", code, users, fault),
                          set_language_command(uid, "private", code, own, fault))
       /\ \A fault \in {"none", "lookup"} :
             /\ SameFor(uid, show_menu(uid, "private", users, fault),
                             show_menu(uid, "private", own, fault))
             /\ SameFor(uid, set_language_prompt(uid, "private", users, fault),
                             set_language_prompt(uid, "private", own, fault))
             /\ SameFor(uid, handle_back_to_menu(uid, users, fault),
                             handle_back_to_menu(uid, own, fault))

(* A step that is not an event of uid leaves the rows, the rate-limiter     *)
(* timestamp, the admissions and the handlers in flight of uid as they were *)
OthersUntouched ==
    \A uid \in Ids :
       last'.uid # uid
       => /\ Own(users', uid) = Own(users, uid)
          /\ users_last_message'[uid] = users_last_message[uid]
          /\ admitted_at'[uid] = admitted_at[uid]
          /\ registered'[uid] = registered[uid]
          /\ InFlightOf(uid)' = InFlightOf(uid)

(* C23: the events of one identity never change the rows or the             *)
(* rate-limiter timestamp of another, and what a handler answers and        *)
(* stores for an identity is decided by that identity's own rows; so the    *)
(* admissions and the record of an identity are what they would be without  *)
(* the events of the others.  The handlers read the table and the clock     *)
(* only, and a handler that resumes changes neither: every table that is    *)
(* reached is reached with no handler in flight, and it is there that the   *)
(* handlers are compared.                                                   *)
C23_CrossIdentityIndependence ==
    /\ [][OthersUntouched]_vars
    /\ [](tasks = <<>> => OwnRowsDecide)

(* Sender 102 has just had a trusted hero snapshot stored while a handler   *)
(* of sender 101, whose row is untrusted, is in flight                      *)
C23_Witness ==
    /\ last = Obs(102, "hero", SUCCESS_MESSAGE)
    /\ InFlightOf(101) # <<>>
    /\ users_last_message[101] # None
    /\ \E i \in RowsOf(users, 101) : users[i].trust_status = Some("untrusted")
    /\ \E j \in RowsOf(users, 102) : users[j].trust_status = Some("trusted")

====
